---- MODULE Spec2Model ----
(***************************************************************************)
(* verma-net-radiation: the daily integration of an instantaneous net      *)
(* radiation (daily_Rn_integration_verma), the instantaneous net radiation *)
(* balance (verma_net_radiation) and the scalar/field emissivity           *)
(* regression script (old_eta2 / new_eta2).                                *)
(*                                                                         *)
(* A numeric field is modelled by its shape and one representative element *)
(* (every formula of the program is elementwise).                          *)
(***************************************************************************)
EXTENDS Integers, Sequences, FiniteSets, TLC

\* ------------------------------------------------------------------ bounds
\* Longest one-dimensional field.
MaxLen == 2
\* Hours of day run over 0..MaxHour.
MaxHour == 8
\* Sunrise hours run over 1..MaxSunrise.
MaxSunrise == 3
\* Daylight hours run over -MaxDaylight..MaxDaylight.
MaxDaylight == 2

\* ------------------------------------------------------------------ shapes
ScalarShape == <<>>

Shapes == {ScalarShape} \cup {<<n>> : n \in 1..MaxLen}

\* The two-dimensional broadcast artifact calculate_solar_hour_of_day may return.
Shapes2D == {<<n, n>> : n \in 1..MaxLen}

Max2(a, b) == IF a >= b THEN a ELSE b

\* numpy aligns shapes on the right and pads the shorter one with ones.
PadShape(s, n) == [i \in 1..n |-> IF i <= n - Len(s) THEN 1 ELSE s[i - (n - Len(s))]]

Broadcastable(a, b) ==
    LET n == Max2(Len(a), Len(b))
        pa == PadShape(a, n)
        pb == PadShape(b, n)
    IN \A i \in 1..n : pa[i] = pb[i] \/ pa[i] = 1 \/ pb[i] = 1

Broadcast(a, b) ==
    LET n == Max2(Len(a), Len(b))
        pa == PadShape(a, n)
        pb == PadShape(b, n)
    IN [i \in 1..n |-> Max2(pa[i], pb[i])]

\* np.diag of a square matrix is its diagonal; a shape of another rank is kept.
DiagShape(s) == IF Len(s) = 2 THEN <<s[1]>> ELSE s

\* ------------------------------------------------------------------ values
\* An optional argument: None, or a field with its shape, a representative
\* element, whether it is a plain Python number (py) rather than a numpy value,
\* the stage that produced it (by) and the resolved arguments it was computed
\* from (uses).  What an external calculator returns is a numpy value.
NoneF == [isNone |-> TRUE, shape |-> ScalarShape, val |-> 0, py |-> FALSE,
          by |-> "none", uses |-> {}]

Fld(sh, v, p, b, u) == [isNone |-> FALSE, shape |-> sh, val |-> v, py |-> p,
                        by |-> b, uses |-> u]

\* A value the caller passes: a plain number when scalar, an ndarray otherwise.
Supplied(sh, v) == Fld(sh, v, sh = ScalarShape, "caller", {})

Hours == 0..MaxHour
Sunrises == 1..MaxSunrise
Daylights == (-MaxDaylight)..MaxDaylight

\* What the external solar calculators may hand back: the ends of each range
\* (a zero day length is the polar night).
ExternalHours == {0, MaxHour}
ExternalSunrises == {1, MaxSunrise}
ExternalDaylights == {0, MaxDaylight}

TimeKinds == {"None", "datetime", "str", "badstr"}
GeometryKinds == {"None", "SpatialGeometry", "GeoSeries"}

\* daily_Rn_integration_verma: the stage reached, the call's arguments as
\* passed, its parameters and locals, the warnings emitted, what it returned.
VARIABLES pc, args, Rn_Wm2, time_UTC, geometry, hour_of_day, day_of_year,
          lat, lon, sunrise_hour, daylight_hours, warned, result

\* verma_net_radiation: whether it has returned, its arguments, its locals and
\* its results dictionary.
VARIABLES netpc, netArgs, netLocals, results

\* The emissivity regression script: whether a row was printed, the pair under
\* test, and the row's old_val, new_val_item and match.
VARIABLES etapc, etaArgs, old_val, new_val_item, match

dvars == <<pc, args, Rn_Wm2, time_UTC, geometry, hour_of_day, day_of_year,
           lat, lon, sunrise_hour, daylight_hours, warned, result>>

nvars == <<netpc, netArgs, netLocals, results>>

evars == <<etapc, etaArgs, old_val, new_val_item, match>>

vars == <<dvars, nvars, evars>>

\* ----------------------------------------------------------------- numbers
\* A float is a fixed-point integer, or not-a-number, or an infinity.
NaN == [kind |-> "nan", v |-> 0]
PosInf == [kind |-> "inf", v |-> 1]
NegInf == [kind |-> "inf", v |-> -1]
Num(x) == [kind |-> "num", v |-> x]

IsNum(a) == a.kind = "num"
IsNaN(a) == a.kind = "nan"

\* IEEE comparisons: false as soon as an operand is not-a-number.
GeZero(a) == ~IsNaN(a) /\ a.v >= 0
LeN(a, b) == IsNum(a) /\ IsNum(b) /\ a.v <= b.v

RECURSIVE ISqrtBetween(_, _, _)
ISqrtBetween(n, lo, hi) ==
    IF lo = hi THEN lo
    ELSE LET mid == (lo + hi + 1) \div 2
         IN IF mid * mid <= n THEN ISqrtBetween(n, mid, hi)
            ELSE ISqrtBetween(n, lo, mid - 1)

\* The integer square root, for n < 2^31.
ISqrt(n) == ISqrtBetween(n, 0, 46340)

NoResult == [kind |-> "none", shape |-> ScalarShape, isNaN |-> FALSE,
             hour |-> 0, sunrise |-> 0, daylight |-> 0, error |-> "none"]

Raised(e) == [NoResult EXCEPT !.kind = "raised", !.error = e]

\* ------------------------------------------------- the integration's sine
\* The sign of pi * sin(pi * x / d) as IEEE doubles compute it, for d # 0 and
\* |x / d| <= 12.  With q = x / d: the sine is exactly 0 only for x = 0; at a
\* nonzero integer q the double nearest pi (which is below pi) makes the angle
\* fall just short of q * pi in magnitude, so the result is a tiny nonzero
\* number with the sign of the sine just before that multiple.
SinPiSign(x, d) ==
    LET D == IF d < 0 THEN -d ELSE d
        X == IF d < 0 THEN -x ELSE x
        A == IF X < 0 THEN -X ELSE X
        r == A % (2 * D)
        pos == IF r = 0 THEN -1          \* just short of an even multiple
               ELSE IF r <= D THEN 1     \* inside a positive lobe, or just short of an odd multiple
               ELSE -1
    IN IF X = 0 THEN 0 ELSE IF X > 0 THEN pos ELSE -pos

\* Line 147: the denominator's class.  A zero daylight_hours divides by zero:
\* numpy gives inf or nan, whose sine is nan.
DenominatorClass(h, s, d) ==
    IF d = 0 THEN "nan"
    ELSE LET sg == SinPiSign(h - s, d)
         IN IF sg > 0 THEN "pos" ELSE IF sg < 0 THEN "neg" ELSE "zero"

\* Line 156: mask = (denom <= 0) | isnan(denom) | isinf(denom).
Masked(cls) == cls \in {"neg", "zero", "nan"}

\* Line 147 on plain Python numbers raises ZeroDivisionError for a zero divisor;
\* as soon as one operand is a numpy value the division is numpy's.
PythonDivisionByZero(h, s, d) == d.val = 0 /\ h.py /\ s.py /\ d.py

\* ------------------------------------------------------------- the stages
\* A bug: a string the parser rejects is passed on unparsed.
ParseTimeLenient(t) == IF t = "str" THEN "datetime" ELSE t

\* Lines 97-102: a string time reference goes through dateutil's parser, which
\* raises on a string it cannot parse; a datetime is kept.
ParseTime(t) ==
    IF t = "str" THEN "datetime"
    ELSE IF t = "badstr" THEN "ParserError"
    ELSE t

\* A bug: only the SpatialGeometry branch exists.
FromSpatialGeometryOnly(coord, g, attrSG, attrGS) ==
    IF coord.isNone /\ g = "SpatialGeometry"
    THEN Fld(ScalarShape, 0, FALSE, attrSG, {})
    ELSE coord

\* Lines 72-75 and 77-80: a coordinate missing from the call is read from the
\* geometry (SpatialGeometry: .lat/.lon, GeoSeries: .y/.x).
FromGeometry(coord, g, attrSG, attrGS) ==
    IF coord.isNone /\ g = "SpatialGeometry"
    THEN Fld(ScalarShape, 0, FALSE, attrSG, {})
    ELSE IF coord.isNone /\ g = "GeoSeries"
    THEN Fld(ScalarShape, 0, FALSE, attrGS, {})
    ELSE coord

\* The resolved arguments handed to an external calculator, each with the stage
\* that produced it.
Passed(name, f) == IF f.isNone THEN {} ELSE {<<name, f.by>>}

\* The instantaneous flux: a plain Python number, or an ndarray of floats or of
\* integers.
Fluxes ==
    {[shape |-> ScalarShape, py |-> TRUE, dtype |-> "float"]}
      \cup {[shape |-> sh, py |-> FALSE, dtype |-> t] :
               sh \in Shapes \ {ScalarShape}, t \in {"float", "int"}}

\* A call whose optional arguments are present or absent in every combination:
\* what the resolution stages decide on.
ResolutionCall ==
    /\ time_UTC \in TimeKinds
    /\ geometry \in GeometryKinds
    /\ hour_of_day \in {NoneF} \cup {Supplied(sh, v) : sh \in Shapes, v \in ExternalHours}
    /\ day_of_year \in {NoneF, Supplied(ScalarShape, 0)}
    /\ lat \in {NoneF, Supplied(ScalarShape, 0)}
    /\ lon \in {NoneF, Supplied(ScalarShape, 0)}
    /\ sunrise_hour \in {NoneF} \cup {Supplied(ScalarShape, v) : v \in ExternalSunrises}
    /\ daylight_hours \in {NoneF} \cup {Supplied(ScalarShape, v) : v \in ExternalDaylights}

\* A call that supplies the three solar parameters itself, in every shape and
\* value: what the integration decides on.
IntegrationCall ==
    /\ time_UTC = "None"
    /\ geometry = "None"
    /\ day_of_year = NoneF
    /\ lat = NoneF
    /\ lon = NoneF
    /\ hour_of_day \in {Supplied(sh, v) : sh \in Shapes, v \in Hours}
    /\ sunrise_hour \in {Supplied(sh, v) : sh \in Shapes, v \in Sunrises}
    /\ daylight_hours \in {Supplied(sh, v) : sh \in Shapes, v \in Daylights}

DInit ==
    /\ pc = "location"
    /\ Rn_Wm2 \in Fluxes
    /\ (ResolutionCall \/ IntegrationCall)
    /\ args = [Rn_Wm2 |-> Rn_Wm2, time_UTC |-> time_UTC, geometry |-> geometry,
               hour_of_day |-> hour_of_day, day_of_year |-> day_of_year,
               lat |-> lat, lon |-> lon, sunrise_hour |-> sunrise_hour,
               daylight_hours |-> daylight_hours]
    /\ warned = 0
    /\ result = NoResult

\* Lines 71-90.  (Lines 82-90 turn a list into an ndarray of the same shape and
\* elements, which leaves a field as modelled here unchanged.)
ResolveLocation ==
    /\ pc = "location"
    /\ lat' = FromGeometry(lat, geometry, "geometry.lat", "geometry.y")
    /\ lon' = FromGeometry(lon, geometry, "geometry.lon", "geometry.x")
    /\ pc' = "day_of_year"
    /\ UNCHANGED <<args, Rn_Wm2, time_UTC, geometry, hour_of_day, day_of_year,
                   sunrise_hour, daylight_hours, warned, result>>
    /\ UNCHANGED <<nvars, evars>>

\* Lines 94-109.
ResolveDayOfYear ==
    /\ pc = "day_of_year"
    /\ IF day_of_year.isNone /\ time_UTC # "None"
       THEN IF ParseTime(time_UTC) = "ParserError"
            THEN /\ pc' = "raised"
                 /\ result' = Raised("parser")
                 /\ UNCHANGED <<time_UTC, day_of_year>>
            ELSE \E returns \in BOOLEAN :
                   IF returns
                   THEN /\ time_UTC' = ParseTime(time_UTC)
                        /\ day_of_year' =
                             Fld(ScalarShape, 0, FALSE, "calculate_solar_day_of_year",
                                 {<<"time_UTC", "caller">>}
                                   \cup (IF geometry = "None" THEN {}
                                         ELSE {<<"geometry", "caller">>})
                                   \cup Passed("lat", lat) \cup Passed("lon", lon))
                        /\ pc' = "hour_of_day"
                        /\ UNCHANGED result
                   ELSE /\ pc' = "raised"
                        /\ result' = Raised("calculate_solar_day_of_year")
                        /\ UNCHANGED <<time_UTC, day_of_year>>
       ELSE /\ pc' = "hour_of_day"
            /\ UNCHANGED <<time_UTC, day_of_year, result>>
    /\ UNCHANGED <<args, Rn_Wm2, geometry, hour_of_day, lat, lon, sunrise_hour,
                   daylight_hours, warned>>
    /\ UNCHANGED <<nvars, evars>>

\* Lines 111-126.
ResolveHourOfDay ==
    /\ pc = "hour_of_day"
    /\ IF hour_of_day.isNone /\ time_UTC # "None"
       THEN \E returns \in BOOLEAN :
              IF returns
              THEN \E sh \in Shapes \cup Shapes2D, v \in ExternalHours :
                     /\ hour_of_day' =
                          Fld(DiagShape(sh), v, FALSE, "calculate_solar_hour_of_day",
                              {<<"time_UTC", "caller">>}
                                \cup Passed("lat", lat) \cup Passed("lon", lon))
                     /\ pc' = "sunrise_daylight"
                     /\ UNCHANGED result
              ELSE /\ pc' = "raised"
                   /\ result' = Raised("calculate_solar_hour_of_day")
                   /\ UNCHANGED hour_of_day
       ELSE /\ pc' = "sunrise_daylight"
            /\ UNCHANGED <<hour_of_day, result>>
    /\ UNCHANGED <<args, Rn_Wm2, time_UTC, geometry, day_of_year, lat, lon,
                   sunrise_hour, daylight_hours, warned>>
    /\ UNCHANGED <<nvars, evars>>

\* A bug: both parameters are taken from the solar hour angle whenever one is missing.
DeriveAlways(current, derived) == derived

\* Lines 131-134: only a parameter that is still None is derived.
Derive(current, derived) == IF current.isNone THEN derived ELSE current

\* Lines 128-134.
ResolveSunriseDaylight ==
    /\ pc = "sunrise_daylight"
    /\ IF (daylight_hours.isNone \/ sunrise_hour.isNone)
          /\ ~day_of_year.isNone /\ ~lat.isNone
       THEN \E returns \in BOOLEAN :
              IF returns
              THEN \E sh \in Shapes, dl \in ExternalDaylights, sr \in ExternalSunrises :
                     LET sha == Passed("day_of_year", day_of_year) \cup Passed("lat", lat)
                     IN /\ daylight_hours' =
                             Derive(daylight_hours,
                                    Fld(sh, dl, FALSE, "daylight_from_SHA", sha))
                        /\ sunrise_hour' =
                             Derive(sunrise_hour,
                                    Fld(sh, sr, FALSE, "sunrise_from_SHA", sha))
                        /\ pc' = "validate"
                        /\ UNCHANGED result
              ELSE /\ pc' = "raised"
                   /\ result' = Raised("sun_angles")
                   /\ UNCHANGED <<sunrise_hour, daylight_hours>>
       ELSE /\ pc' = "validate"
            /\ UNCHANGED <<sunrise_hour, daylight_hours, result>>
    /\ UNCHANGED <<args, Rn_Wm2, time_UTC, geometry, hour_of_day, day_of_year,
                   lat, lon, warned>>
    /\ UNCHANGED <<nvars, evars>>

\* Line 137.
MissingSolarParameter(h, s, d) == h.isNone \/ s.isNone \/ d.isNone

\* A bug: the plain nan is returned whatever the flux's shape.
FallbackResultScalar(rn) ==
    [NoResult EXCEPT !.kind = "fallback", !.isNaN = TRUE, !.shape = ScalarShape]

\* Lines 139-142: np.full_like(Rn_Wm2, nan) for a flux with a shape, the plain
\* nan otherwise.  np.full_like keeps the flux's dtype and casts the fill value
\* to it: an integer array cannot hold not-a-number and comes back filled with
\* an integer.
FallbackResult(rn) ==
    IF rn.py
    THEN [NoResult EXCEPT !.kind = "fallback", !.isNaN = TRUE, !.shape = ScalarShape]
    ELSE [NoResult EXCEPT !.kind = "fallback", !.isNaN = (rn.dtype = "float"),
                          !.shape = rn.shape]

\* Lines 136-142.
Validate ==
    /\ pc = "validate"
    /\ IF MissingSolarParameter(hour_of_day, sunrise_hour, daylight_hours)
       THEN /\ warned' = warned + 1
            /\ result' = FallbackResult(Rn_Wm2)
            /\ pc' = "done"
       ELSE /\ pc' = "integrate"
            /\ UNCHANGED <<warned, result>>
    /\ UNCHANGED <<args, Rn_Wm2, time_UTC, geometry, hour_of_day, day_of_year,
                   lat, lon, sunrise_hour, daylight_hours>>
    /\ UNCHANGED <<nvars, evars>>

\* Line 147: the shape of the denominator, when its operands broadcast.
DenominatorOperandsBroadcast(h, s, d) ==
    /\ Broadcastable(h.shape, s.shape)
    /\ Broadcastable(Broadcast(h.shape, s.shape), d.shape)

DenominatorShape(h, s, d) == Broadcast(Broadcast(h.shape, s.shape), d.shape)

\* Lines 150-158: np.asarray always has a shape, so the array case is the one
\* taken; 1.6 * Rn_array / denom_array and np.where broadcast flux and denominator.
IntegrationResult(rn, h, s, d) ==
    IF PythonDivisionByZero(h, s, d) THEN Raised("ZeroDivisionError")
    ELSE IF ~DenominatorOperandsBroadcast(h, s, d)
            \/ ~Broadcastable(rn.shape, DenominatorShape(h, s, d))
    THEN Raised("ValueError")
    ELSE [kind |-> "integrated",
          shape |-> Broadcast(rn.shape, DenominatorShape(h, s, d)),
          isNaN |-> Masked(DenominatorClass(h.val, s.val, d.val)),
          hour |-> h.val, sunrise |-> s.val, daylight |-> d.val,
          error |-> "none"]

\* Lines 144-166.
Integrate ==
    /\ pc = "integrate"
    /\ result' = IntegrationResult(Rn_Wm2, hour_of_day, sunrise_hour, daylight_hours)
    /\ pc' = IF result'.kind = "raised" THEN "raised" ELSE "done"
    /\ UNCHANGED <<args, Rn_Wm2, time_UTC, geometry, hour_of_day, day_of_year,
                   lat, lon, sunrise_hour, daylight_hours, warned>>
    /\ UNCHANGED <<nvars, evars>>

DNext ==
    \/ ResolveLocation
    \/ ResolveDayOfYear
    \/ ResolveHourOfDay
    \/ ResolveSunriseDaylight
    \/ Validate
    \/ Integrate

\* ------------------------------------------------------ verma_net_radiation
\* Temperatures are in hundredths of a degree, albedo, emissivity and relative
\* humidity in hundredths, fluxes in hundredths of W/m2, the vapour pressure in
\* tenths of a pascal and the atmospheric emissivity in thousandths.
AddN(a, b) == IF IsNum(a) /\ IsNum(b) THEN Num(a.v + b.v) ELSE NaN
SubN(a, b) == IF IsNum(a) /\ IsNum(b) THEN Num(a.v - b.v) ELSE NaN
\* a * b for b in 1/unit.
MulN(a, b, unit) == IF IsNum(a) /\ IsNum(b) THEN Num((a.v * b.v) \div unit) ELSE NaN

\* np.clip(a, lo, hi) and np.clip(a, lo, None): not-a-number stays not-a-number.
np_clip(a, lo, hi) ==
    IF ~IsNum(a) THEN a
    ELSE IF a.v < lo THEN Num(lo) ELSE IF a.v > hi THEN Num(hi) ELSE a

np_clip_lower(a, lo) ==
    IF ~IsNum(a) THEN a ELSE IF a.v < lo THEN Num(lo) ELSE a

\* Line 11, in 1e-10 W m-2 K-4.
STEFAN_BOLTZMAN_CONSTANT == 567

\* sigma * T^4 in hundredths of W/m2, for T in hundredths of a kelvin.
Blackbody(T_K) ==
    IF ~IsNum(T_K) THEN NaN
    ELSE LET t2 == (T_K.v * T_K.v) \div 100000      \* 10 K^2
         IN Num((((t2 * t2) \div 1000) * STEFAN_BOLTZMAN_CONSTANT) \div 1000)

\* Line 53: 10 ** (7.5 * (Ta_K - 273.15) / (Ta_K - 35.85)) in thousandths, at the
\* air temperatures of AirTemperatures (0, 20 and 40 degrees Celsius).
MagnusPower(Ta_K) ==
    IF ~IsNum(Ta_K) THEN NaN
    ELSE Num(CASE Ta_K.v = 27315 -> 1000
               [] Ta_K.v = 29315 -> 3828
               [] Ta_K.v = 31315 -> 12074)

\* Line 53.
VapourPressure(RH, Ta_K) ==
    IF ~IsNum(RH) \/ ~IsNum(Ta_K) THEN NaN
    ELSE Num((RH.v * ((6113 * MagnusPower(Ta_K).v) \div 1000)) \div 100)

\* brutsaert_atmospheric_emissivity: -sqrt(1.2 + 3 * 0.465 * Ea / Ta) where the
\* argument is not negative, not-a-number where it is.
brutsaert_atmospheric_emissivity(Ea_Pa, Ta_K) ==
    IF ~IsNum(Ea_Pa) \/ ~IsNum(Ta_K) THEN NaN
    ELSE LET eta1 == (4650 * Ea_Pa.v) \div Ta_K.v
             eta2_arg == 1200 + 3 * eta1
         IN IF eta2_arg >= 0 THEN Num(-ISqrt(eta2_arg * 1000)) ELSE NaN

\* incoming_longwave_radiation: emissivity * sigma * Ta^4, a cloudy pixel
\* corrected to the blackbody emission.
incoming_longwave_radiation(atmospheric_emissivity, Ta_K, cloud_mask) ==
    IF cloud_mask = "cloudy" THEN Blackbody(Ta_K)
    ELSE MulN(Blackbody(Ta_K), atmospheric_emissivity, 1000)

\* outgoing_longwave_radiation: emissivity * sigma * ST^4.
outgoing_longwave_radiation(emissivity, ST_K) == MulN(Blackbody(ST_K), emissivity, 100)

\* A bug: the product is not clamped.
OutgoingShortwaveUnclamped(SWin, albedo) == MulN(SWin, albedo, 100)

\* Line 59.
OutgoingShortwave(SWin, albedo) == np_clip_lower(MulN(SWin, albedo, 100), 0)

\* Line 63.
NetShortwave(SWin, SWout) == np_clip_lower(SubN(SWin, SWout), 0)

\* A bug: the balance is returned without the clamp.
NetRadiationUnclamped(SWnet, LWnet) == AddN(SWnet, LWnet)

\* Line 84.
NetRadiation(SWnet, LWnet) == np_clip_lower(AddN(SWnet, LWnet), 0)

\* Lines 44-87.
verma_locals(ST_C, emissivity, albedo, SWin, Ta_C, RH, cloud_mask) ==
    LET ST_K == AddN(ST_C, Num(27315))
        Ta_K == AddN(Ta_C, Num(27315))
        Ea_Pa == VapourPressure(RH, Ta_K)
        albedo1 == np_clip(albedo, 0, 100)
        SWout == OutgoingShortwave(SWin, albedo1)
        SWnet == NetShortwave(SWin, SWout)
        atmospheric_emissivity == brutsaert_atmospheric_emissivity(Ea_Pa, Ta_K)
        LWin == incoming_longwave_radiation(atmospheric_emissivity, Ta_K, cloud_mask)
        emissivity1 == np_clip(emissivity, 0, 100)
        LWout == outgoing_longwave_radiation(emissivity1, ST_K)
        LWnet == SubN(LWin, LWout)
        Rn == NetRadiation(SWnet, LWnet)
    IN [ST_K |-> ST_K, Ta_K |-> Ta_K, Ea_Pa |-> Ea_Pa, albedo |-> albedo1,
        SWout |-> SWout, SWnet |-> SWnet,
        atmospheric_emissivity |-> atmospheric_emissivity, LWin |-> LWin,
        emissivity |-> emissivity1, LWout |-> LWout, LWnet |-> LWnet, Rn |-> Rn]

NoNetArgs == [ST_C |-> NaN, emissivity |-> NaN, albedo |-> NaN, SWin |-> NaN,
              Ta_C |-> NaN, RH |-> NaN, cloud_mask |-> "None"]

NoResults == [SWout |-> NaN, LWin |-> NaN, LWout |-> NaN, Rn |-> NaN]

NIdle ==
    /\ netpc = "idle"
    /\ netArgs = NoNetArgs
    /\ netLocals = verma_locals(NaN, NaN, NaN, NaN, NaN, NaN, "None")
    /\ results = NoResults

NumsAndNaN(S) == {Num(x) : x \in S} \cup {NaN}

SurfaceTemperatures == NumsAndNaN({0, 2500})
AirTemperatures == NumsAndNaN({0, 2000, 4000})
Emissivities == NumsAndNaN({-10, 0, 98, 100, 120})
Albedos == NumsAndNaN({-50, 0, 20, 100, 150})
Shortwaves == NumsAndNaN({-10000, 0, 60000, 100000})
Humidities == NumsAndNaN({-20, 0, 50, 100})
CloudMasks == {"None", "clear", "cloudy"}

\* Lines 13-87: one call.
VermaNetRadiation ==
    /\ netpc = "idle"
    /\ \E ST_C \in SurfaceTemperatures, emissivity \in Emissivities,
          albedo \in Albedos, SWin \in Shortwaves, Ta_C \in AirTemperatures,
          RH \in Humidities, cloud_mask \in CloudMasks :
          LET l == verma_locals(ST_C, emissivity, albedo, SWin, Ta_C, RH, cloud_mask)
          IN /\ netArgs' = [ST_C |-> ST_C, emissivity |-> emissivity,
                            albedo |-> albedo, SWin |-> SWin, Ta_C |-> Ta_C,
                            RH |-> RH, cloud_mask |-> cloud_mask]
             /\ netLocals' = l
             /\ results' = [SWout |-> l.SWout, LWin |-> l.LWin,
                            LWout |-> l.LWout, Rn |-> l.Rn]
    /\ netpc' = "returned"
    /\ UNCHANGED <<dvars, evars>>

\* --------------------------------------------- the emissivity regression
\* Ea_Pa is in pascals and Ta_K in kelvins; eta1, eta2_arg and the results are
\* in thousandths.
ZeroDivisionError == [kind |-> "raise", v |-> 0]
Complex == [kind |-> "complex", v |-> 0]

LtZero(a) == a.kind \in {"num", "inf"} /\ a.v < 0

\* Lines 4 and 13: 0.465 * Ea_Pa / Ta_K.  Plain Python numbers raise on a zero
\* divisor; numpy divides to an infinity, or to not-a-number for 0 / 0.
Eta1(Ea_Pa, Ta_K, EaPy, TaPy) ==
    IF IsNum(Ta_K) /\ Ta_K.v = 0
    THEN IF EaPy /\ TaPy THEN ZeroDivisionError
         ELSE IF ~IsNum(Ea_Pa) \/ Ea_Pa.v = 0 THEN NaN
         ELSE IF Ea_Pa.v > 0 THEN PosInf ELSE NegInf
    ELSE IF ~IsNum(Ea_Pa) \/ ~IsNum(Ta_K) THEN NaN
    ELSE Num((465 * Ea_Pa.v) \div Ta_K.v)

\* Lines 5 and 14: 1.2 + 3 * eta1.
Eta2Arg(eta1) ==
    IF IsNum(eta1) THEN Num(1200 + 3 * eta1.v) ELSE eta1

\* np.sqrt: not-a-number (and a warning) below zero, never a complex number.
np_sqrt(a) ==
    IF IsNum(a) THEN (IF a.v < 0 THEN NaN ELSE Num(ISqrt(a.v * 1000)))
    ELSE IF a = PosInf THEN PosInf
    ELSE NaN

Negate(a) == IF IsNaN(a) THEN NaN ELSE [a EXCEPT !.v = -a.v]

\* A bug: the square root is taken as a power and without the guard, which for a
\* negative Python float is a complex number.
old_eta2_power(Ea_Pa, Ta_K, EaPy, TaPy) ==
    LET eta2_arg == Eta2Arg(Eta1(Ea_Pa, Ta_K, EaPy, TaPy))
    IN IF eta2_arg = ZeroDivisionError THEN ZeroDivisionError
       ELSE IF LtZero(eta2_arg) THEN Complex
       ELSE Negate(np_sqrt(eta2_arg))

\* Lines 3-10.
old_eta2(Ea_Pa, Ta_K, EaPy, TaPy) ==
    LET eta2_arg == Eta2Arg(Eta1(Ea_Pa, Ta_K, EaPy, TaPy))
    IN IF eta2_arg = ZeroDivisionError THEN ZeroDivisionError
       ELSE IF GeZero(eta2_arg) THEN Negate(np_sqrt(eta2_arg))
       ELSE NaN

\* Lines 12-15: both branches of np.where are computed on every element.
new_eta2(Ea_Pa, Ta_K, EaPy, TaPy) ==
    LET eta2_arg == Eta2Arg(Eta1(Ea_Pa, Ta_K, EaPy, TaPy))
        negated == Negate(np_sqrt(eta2_arg))
    IN IF eta2_arg = ZeroDivisionError THEN ZeroDivisionError
       ELSE IF GeZero(eta2_arg) THEN negated
       ELSE NaN

\* The script's pairs (lines 17-18), and pairs beyond them: a negative vapour
\* pressure, a zero temperature, not-a-number.
VapourPressures == NumsAndNaN({0, 1, 5, 10, 20, -20, -250, -300, -400, 300})
Temperatures == NumsAndNaN({270, 280, 290, 300, 310, 0})

\* Lines 21-31: one row of the comparison.
EtaRow ==
    /\ etapc = "idle"
    /\ \E Ea_Pa \in VapourPressures, Ta_K \in Temperatures,
          EaPy \in BOOLEAN, TaPy \in BOOLEAN :
          LET o == old_eta2(Ea_Pa, Ta_K, EaPy, TaPy)
              n == new_eta2(Ea_Pa, Ta_K, EaPy, TaPy)
          IN /\ etaArgs' = [Ea_Pa |-> Ea_Pa, Ta_K |-> Ta_K, EaPy |-> EaPy,
                            TaPy |-> TaPy]
             /\ old_val' = o
             /\ new_val_item' = n
             /\ etapc' = IF ZeroDivisionError \in {o, n} THEN "raised" ELSE "printed"
             /\ match' = (ZeroDivisionError \notin {o, n}
                           /\ ((IsNaN(o) /\ IsNaN(n)) \/ o = n))
    /\ UNCHANGED <<dvars, nvars>>

EIdle ==
    /\ etapc = "idle"
    /\ etaArgs = [Ea_Pa |-> NaN, Ta_K |-> NaN, EaPy |-> FALSE, TaPy |-> FALSE]
    /\ old_val = NaN
    /\ new_val_item = NaN
    /\ match = FALSE

DIdle ==
    /\ pc = "idle"
    /\ Rn_Wm2 = [shape |-> ScalarShape, py |-> TRUE, dtype |-> "float"]
    /\ time_UTC = "None"
    /\ geometry = "None"
    /\ hour_of_day = NoneF
    /\ day_of_year = NoneF
    /\ lat = NoneF
    /\ lon = NoneF
    /\ sunrise_hour = NoneF
    /\ daylight_hours = NoneF
    /\ args = [Rn_Wm2 |-> Rn_Wm2, time_UTC |-> time_UTC, geometry |-> geometry,
               hour_of_day |-> hour_of_day, day_of_year |-> day_of_year,
               lat |-> lat, lon |-> lon, sunrise_hour |-> sunrise_hour,
               daylight_hours |-> daylight_hours]
    /\ warned = 0
    /\ result = NoResult

\* ---------------------------------------------------------- specifications
\* One call of daily_Rn_integration_verma.
Init == DInit /\ NIdle /\ EIdle

Next == DNext

Spec == Init /\ [][Next]_vars

\* One call of verma_net_radiation.
InitNet == DIdle /\ NIdle /\ EIdle

NextNet == VermaNetRadiation

SpecNet == InitNet /\ [][NextNet]_vars

\* One row of the emissivity regression script.
InitEta == DIdle /\ NIdle /\ EIdle

NextEta == EtaRow

SpecEta == InitEta /\ [][NextEta]_vars

\* ------------------------------------------------------------- the claims
Terminal == pc \in {"done", "raised"}

Integrated == pc = "done" /\ result.kind = "integrated"

FellBack == /\ pc = "done"
            /\ result.kind = "fallback"
            /\ result.isNaN
            /\ warned = 1
            /\ result.shape = args.Rn_Wm2.shape

ExternalRaised ==
    /\ pc = "raised"
    /\ result.error \in {"calculate_solar_day_of_year",
                         "calculate_solar_hour_of_day", "sun_angles"}

\* One of the three solar parameters is still None.
Unresolved == hour_of_day.isNone \/ sunrise_hour.isNone \/ daylight_hours.isNone

\* The call is past the validation of line 137.
PastValidate ==
    \/ pc \in {"integrate", "done"}
    \/ pc = "raised" /\ result.error \in {"ZeroDivisionError", "ValueError"}

\* C1 (as claimed): an hour of day outside [sunrise, sunrise + daylight], with a
\* positive day length, always integrates to not-a-number.
C1_OutsideWindowIsNaN ==
    (/\ Integrated
     /\ result.daylight > 0
     /\ \/ result.hour < result.sunrise
        \/ result.hour > result.sunrise + result.daylight)
    => result.isNaN

\* C3 (as claimed): a zero or negative day length never raises and always gives
\* not-a-number (operands of incompatible shapes set aside).
C3_DegenerateDayIsNaN ==
    (/\ Terminal
     /\ PastValidate
     /\ ~Unresolved
     /\ daylight_hours.val <= 0
     /\ result.error # "ValueError")
    => (Integrated /\ result.isNaN)

\* C2 (as claimed): past the derivation stages with a solar parameter still
\* unresolved, the call has not raised, has warned exactly once and has returned
\* not-a-number of the flux's shape without integrating.
C2_UnresolvedReturnsNaN == (PastValidate /\ Unresolved) => FellBack

\* C4 (as claimed): the returned value always has the flux's shape, whatever the
\* shapes of hour of day, sunrise hour and day length.
C4_AlwaysFluxShape == pc = "done" => result.shape = args.Rn_Wm2.shape

FitsFlux(f) == f.shape \in {ScalarShape, args.Rn_Wm2.shape}

\* C4 (amended): the returned value has the flux's shape on the fallback path,
\* and on the integration path whenever hour of day, sunrise hour and day length
\* are each a scalar or of the flux's shape.
C4_FluxShapeWhenOperandsFit ==
    /\ (pc = "done" /\ result.kind = "fallback") => result.shape = args.Rn_Wm2.shape
    /\ (/\ Integrated
        /\ FitsFlux(hour_of_day) /\ FitsFlux(sunrise_hour) /\ FitsFlux(daylight_hours))
         => result.shape = args.Rn_Wm2.shape

C4_Witness ==
    /\ Integrated
    /\ Len(args.Rn_Wm2.shape) = 1
    /\ hour_of_day.shape = args.Rn_Wm2.shape
    /\ sunrise_hour.shape = ScalarShape
    /\ daylight_hours.shape = args.Rn_Wm2.shape
    /\ result.shape = args.Rn_Wm2.shape

\* C6 (as claimed): an unparseable time string always ends the call in the
\* parser's failure, whichever other optional arguments are supplied (the
\* external calculators returning).
C6_BadStringAlwaysRaises ==
    (Terminal /\ args.time_UTC = "badstr" /\ ~ExternalRaised)
    => (pc = "raised" /\ result.error = "parser")

\* C6 (amended): an unparseable time string supplied without a day of year ends
\* the call in the parser's failure and never in a returned value, whichever of
\* hour of day, sunrise hour and day length are supplied; no later stage is
\* reached.
C6_BadStringWithoutDayOfYearRaises ==
    (args.time_UTC = "badstr" /\ args.day_of_year.isNone)
    => /\ pc \in {"location", "day_of_year", "raised"}
       /\ pc = "raised" => result.error = "parser"

C6_Witness ==
    /\ pc = "raised"
    /\ result.error = "parser"
    /\ args.time_UTC = "badstr"
    /\ ~args.hour_of_day.isNone
    /\ ~args.sunrise_hour.isNone
    /\ ~args.daylight_hours.isNone

\* The stages follow one another in the order of the source.
StageOrder ==
    pc' # pc =>
      <<pc, pc'>> \in {<<"location", "day_of_year">>,
                       <<"day_of_year", "hour_of_day">>, <<"day_of_year", "raised">>,
                       <<"hour_of_day", "sunrise_daylight">>, <<"hour_of_day", "raised">>,
                       <<"sunrise_daylight", "validate">>, <<"sunrise_daylight", "raised">>,
                       <<"validate", "integrate">>, <<"validate", "done">>,
                       <<"integrate", "done">>, <<"integrate", "raised">>}

\* A call that supplies only the flux, a time reference and a location.
OnlyTimeAndLocation ==
    /\ args.time_UTC # "None"
    /\ args.hour_of_day.isNone
    /\ args.day_of_year.isNone
    /\ args.sunrise_hour.isNone
    /\ args.daylight_hours.isNone
    /\ \/ args.geometry # "None" /\ args.lat.isNone /\ args.lon.isNone
       \/ args.geometry = "None" /\ ~args.lat.isNone /\ ~args.lon.isNone

\* The location a stage was given: the caller's or the geometry's.
LocationSources(name) ==
    {<<name, b>> : b \in {"caller", "geometry.lat", "geometry.y", "geometry.lon",
                          "geometry.x"}}

\* C9: the stages run in the order location, day of year, hour of day,
\* sunrise/day length, each on what the earlier ones resolved; a call with only
\* a flux, a time reference and a location never takes the warning fallback, and
\* when the parser and the external calculators return it integrates with an
\* hour of day computed from the resolved location and a sunrise and day length
\* computed from the derived day of year and the resolved latitude.
C9_StagesResolveInOrder ==
    /\ [][StageOrder]_vars
    /\ [](OnlyTimeAndLocation =>
            /\ result.kind # "fallback"
            /\ warned = 0
            /\ pc = "raised" =>
                 \/ ExternalRaised
                 \/ result.error \in {"parser", "ValueError"}
            /\ pc = "done" =>
                 /\ Integrated
                 /\ hour_of_day.by = "calculate_solar_hour_of_day"
                 /\ hour_of_day.uses \cap LocationSources("lat") # {}
                 /\ hour_of_day.uses \cap LocationSources("lon") # {}
                 /\ sunrise_hour.by = "sunrise_from_SHA"
                 /\ daylight_hours.by = "daylight_from_SHA"
                 /\ <<"day_of_year", "calculate_solar_day_of_year">> \in sunrise_hour.uses
                 /\ sunrise_hour.uses \cap LocationSources("lat") # {}
                 /\ daylight_hours.uses = sunrise_hour.uses)

C9_Witness ==
    /\ Integrated
    /\ OnlyTimeAndLocation
    /\ args.geometry = "GeoSeries"
    /\ args.time_UTC = "str"
    /\ <<"lat", "geometry.y">> \in sunrise_hour.uses

Kept(supplied, now) == ~supplied.isNone => now = supplied

\* C10: a value the caller supplied is never replaced: latitude and longitude
\* win over the geometry, day of year and hour of day are not recomputed from
\* the time reference, and when one of sunrise hour / day length is supplied
\* only the other is derived and the supplied one enters the integration.
C10_SuppliedValuesKept ==
    /\ Kept(args.lat, lat)
    /\ Kept(args.lon, lon)
    /\ Kept(args.day_of_year, day_of_year)
    /\ Kept(args.hour_of_day, hour_of_day)
    /\ Kept(args.sunrise_hour, sunrise_hour)
    /\ Kept(args.daylight_hours, daylight_hours)
    /\ Integrated =>
         /\ ~args.hour_of_day.isNone => result.hour = args.hour_of_day.val
         /\ ~args.sunrise_hour.isNone => result.sunrise = args.sunrise_hour.val
         /\ ~args.daylight_hours.isNone => result.daylight = args.daylight_hours.val
         /\ args.sunrise_hour.isNone => sunrise_hour.by = "sunrise_from_SHA"
         /\ args.daylight_hours.isNone => daylight_hours.by = "daylight_from_SHA"

C10_Witness ==
    /\ Integrated
    /\ ~args.sunrise_hour.isNone
    /\ args.daylight_hours.isNone
    /\ daylight_hours.by = "daylight_from_SHA"
    /\ result.sunrise = args.sunrise_hour.val
    /\ ~args.lat.isNone
    /\ args.geometry = "SpatialGeometry"
    /\ lat.by = "caller"
    /\ ~args.day_of_year.isNone
    /\ args.time_UTC = "datetime"

\* C5 (as claimed): whatever the inputs, the returned Rn and SWout are
\* nonnegative.
C5_AlwaysNonnegative ==
    netpc = "returned" => (IsNum(results.Rn) /\ results.Rn.v >= 0
                           /\ IsNum(results.SWout) /\ results.SWout.v >= 0)

\* C5 (amended): the returned Rn and SWout are never negative.  SWout is
\* nonnegative when SWin and albedo are numbers and not-a-number otherwise; Rn
\* is nonnegative when net shortwave and both longwave fluxes are numbers and
\* not-a-number otherwise.
C5_NonnegativeOrNaN ==
    netpc = "returned" =>
      /\ IF IsNum(netArgs.SWin) /\ IsNum(netArgs.albedo)
         THEN IsNum(results.SWout) /\ results.SWout.v >= 0
         ELSE IsNaN(results.SWout)
      /\ IF IsNum(netLocals.SWnet) /\ IsNum(results.LWin) /\ IsNum(results.LWout)
         THEN IsNum(results.Rn) /\ results.Rn.v >= 0
         ELSE IsNaN(results.Rn)

C5_Witness ==
    /\ netpc = "returned"
    /\ IsNum(netArgs.albedo) /\ netArgs.albedo.v > 100
    /\ IsNum(netArgs.emissivity) /\ netArgs.emissivity.v > 100
    /\ IsNum(netArgs.SWin) /\ netArgs.SWin.v < 0
    /\ results.Rn = Num(0)
    /\ results.SWout = Num(0)
    /\ netLocals.LWnet.v < 0

Clamp01(x) == IF x < 0 THEN 0 ELSE IF x > 100 THEN 100 ELSE x

Max0(x) == IF x < 0 THEN 0 ELSE x

\* The clamps in their sequence, each on the clamped value before it; a
\* not-a-number operand makes the result not-a-number.
ClampsInSequence ==
    /\ (IsNum(netArgs.SWin) /\ IsNum(netArgs.albedo)) =>
         results.SWout = Num(Max0((netArgs.SWin.v * Clamp01(netArgs.albedo.v)) \div 100))
    /\ (IsNaN(netArgs.SWin) \/ IsNaN(netArgs.albedo)) => IsNaN(results.SWout)
    /\ IF IsNum(results.SWout)
       THEN netLocals.SWnet = Num(Max0(netArgs.SWin.v - results.SWout.v))
       ELSE IsNaN(netLocals.SWnet)
    /\ (IsNum(netArgs.emissivity) /\ IsNum(netArgs.ST_C)) =>
         results.LWout =
           Num((Blackbody(Num(netArgs.ST_C.v + 27315)).v
                  * Clamp01(netArgs.emissivity.v)) \div 100)
    /\ IF IsNum(netLocals.SWnet) /\ IsNum(results.LWin) /\ IsNum(results.LWout)
       THEN results.Rn =
              Num(Max0(netLocals.SWnet.v + results.LWin.v - results.LWout.v))
       ELSE IsNaN(results.Rn)
    /\ (/\ IsNum(netArgs.SWin) /\ netArgs.SWin.v < 0
        /\ IsNum(netArgs.albedo) /\ netArgs.albedo.v \in 0..100)
         => (results.SWout = Num(0) /\ netLocals.SWnet = Num(0))

\* C8 (as claimed): the clamps are applied in the stated sequence, a negative
\* SWin with albedo in [0, 1] gives SWout = 0 and net shortwave = 0, and
\* SWout <= SWin whenever SWin >= 0.
C8_SequenceAndOutgoingNeverAboveIncoming ==
    netpc = "returned" =>
      /\ ClampsInSequence
      /\ GeZero(netArgs.SWin) => LeN(results.SWout, netArgs.SWin)

\* C8 (amended): the clamps are applied in the stated sequence on the clamped
\* values: SWout = max(0, SWin * clip(albedo, 0, 1)); net shortwave =
\* max(0, SWin - SWout) on that SWout; LWout is computed from
\* clip(emissivity, 0, 1); Rn = max(0, net shortwave + LWin - LWout); a
\* not-a-number operand makes the result not-a-number.  A negative SWin with
\* albedo in [0, 1] gives SWout = 0 and net shortwave = 0, and SWout <= SWin
\* whenever SWin >= 0 is finite and albedo is a number.
C8_ClampSequence ==
    netpc = "returned" =>
      /\ ClampsInSequence
      /\ (GeZero(netArgs.SWin) /\ IsNum(netArgs.albedo))
           => LeN(results.SWout, netArgs.SWin)

C8_Witness ==
    /\ netpc = "returned"
    /\ IsNum(netArgs.albedo) /\ netArgs.albedo.v > 100
    /\ IsNum(netArgs.SWin) /\ netArgs.SWin.v > 0
    /\ results.SWout = netArgs.SWin
    /\ netLocals.SWnet = Num(0)
    /\ IsNum(netArgs.emissivity) /\ netArgs.emissivity.v > 100
    /\ IsNum(results.Rn) /\ results.Rn.v > 0

EtaArg == Eta2Arg(Eta1(etaArgs.Ea_Pa, etaArgs.Ta_K, etaArgs.EaPy, etaArgs.TaPy))

IsNegSqrtOf(r, a) ==
    /\ IsNum(r)
    /\ r.v <= 0
    /\ r.v * r.v <= a.v * 1000
    /\ (1 - r.v) * (1 - r.v) > a.v * 1000

\* C7 (as claimed): for every pair both paths return not-a-number exactly when
\* arg < 0 and -sqrt(arg) otherwise, and neither raises nor returns a complex
\* value.
C7_AgreeOnEveryPair ==
    etapc # "idle" =>
      /\ old_val.kind \notin {"raise", "complex"}
      /\ new_val_item.kind \notin {"raise", "complex"}
      /\ old_val = new_val_item
      /\ IsNaN(old_val) <=> LtZero(EtaArg)
      /\ IsNaN(new_val_item) <=> LtZero(EtaArg)
      /\ (IsNum(EtaArg) /\ EtaArg.v >= 0) => IsNegSqrtOf(old_val, EtaArg)

\* C7 (amended): for every pair both paths end alike, never in a complex value:
\* not-a-number exactly when arg < 0 or arg is itself not-a-number, -sqrt(arg)
\* for a finite arg >= 0 and -inf for an infinite one; they raise (both, the
\* division's ZeroDivisionError) exactly when Ta_K is zero and both arguments
\* are plain Python numbers.
C7_PathsAgree ==
    etapc # "idle" =>
      /\ old_val = new_val_item
      /\ old_val.kind # "complex"
      /\ old_val.kind = "raise" <=>
           (IsNum(etaArgs.Ta_K) /\ etaArgs.Ta_K.v = 0 /\ etaArgs.EaPy /\ etaArgs.TaPy)
      /\ old_val.kind # "raise" =>
           /\ match
           /\ IsNaN(old_val) <=> (LtZero(EtaArg) \/ IsNaN(EtaArg))
           /\ (IsNum(EtaArg) /\ EtaArg.v >= 0) => IsNegSqrtOf(old_val, EtaArg)
           /\ EtaArg = PosInf => old_val = NegInf

C7_Witness ==
    /\ etapc = "printed"
    /\ IsNum(etaArgs.Ea_Pa) /\ etaArgs.Ea_Pa.v < 0
    /\ IsNum(etaArgs.Ta_K) /\ etaArgs.Ta_K.v > 0
    /\ LtZero(EtaArg)
    /\ IsNaN(old_val)
    /\ IsNaN(new_val_item)
    /\ match

====
